---- MODULE Spec2Model ----
(***************************************************************************)
(* A model of gosfv's checksum-file engine (package sfv): Create, Verify,   *)
(* parseSfvFile, WriteToFile, calculateChecksum, verifyChecksumFile and     *)
(* createChecksumFile.                                                      *)
(*                                                                          *)
(* Text is a sequence of one-character strings, so that formatting          *)
(* (fmt.Sprintf), line scanning (bufio.ScanLines) and pattern matching      *)
(* (regexp) are computed character by character.  A 32-bit word is a        *)
(* function 0..31 -> {0,1}, bit 0 the least significant.                    *)
(*                                                                          *)
(* Left out: the progress bar, and totalFileSize, which only feeds it.      *)
(* What the operating system decides (whether an open, a read or a write    *)
(* fails) is chosen by the environment at each call.                        *)
(***************************************************************************)
EXTENDS Integers, Sequences, FiniteSets, TLC

\* ------------------------------------------------------------------ bounds

\* Longest file content, in bytes.
MaxFileLen == 1
\* Longest file list given to Create.
MaxFiles == 2
\* Most lines of a manifest given directly to Verify.
MaxLines == 2
\* Most I/O faults (failed open, read, create or write) the environment
\* injects in one run.
MaxFaults == 1

\* --------------------------------------------------------------- constants

StatusUnknown == "StatusUnknown"
StatusOK == "StatusOK"
StatusCheckSumOK == "StatusCheckSumOK"
StatusCheckSumNoMatch == "StatusCheckSumNoMatch"
StatusFailedCheckSum == "StatusFailedCheckSum"
StatusNotFound == "StatusNotFound"
StatusNotFile == "StatusNotFile"
StatusStatFailed == "StatusStatFailed"

TypeUnknown == "TypeUnknown"
TypeCRC32 == "TypeCRC32"
TypeMD5 == "TypeMD5"
TypeSHA1 == "TypeSHA1"
TypeSHA256 == "TypeSHA256"

\* The algorithms the create command lets through to Create
\* (StringToType(...) == TypeUnknown is rejected by its Args check).
Types == {TypeCRC32, TypeMD5, TypeSHA1, TypeSHA256}

\* sfv.Version and sfv.Commit: package variables nothing in the repository
\* assigns (the Makefile's -X flags name main.version and main.commit).
Version == <<>>
Commit == <<>>

\* ------------------------------------------------------------------- text

Digits == {"0", "1", "2", "3", "4", "5", "6", "7", "8", "9"}
Lower == {"a", "b", "c", "d", "e", "f", "g", "h", "i", "j", "k", "l", "m",
          "n", "o", "p", "q", "r", "s", "t", "u", "v", "w", "x", "y", "z"}
Upper == {"A", "B", "C", "D", "E", "F", "G", "H", "I", "J", "K", "L", "M",
          "N", "O", "P", "Q", "R", "S", "T", "U", "V", "W", "X", "Y", "Z"}

\* The regexp class \w, and the class [\w\.].
WordChars == Digits \cup Lower \cup Upper \cup {"_"}
WordDotChars == WordChars \cup {"."}

AllIn(s, set) == \A k \in 1..Len(s) : s[k] \in set

\* The digits of the verb %x.
HexDigits == <<"0", "1", "2", "3", "4", "5", "6", "7",
               "8", "9", "a", "b", "c", "d", "e", "f">>

\* ---------------------------------------------------------- 32-bit words

Bit == {0, 1}
Xor1(a, b) == IF a = b THEN 0 ELSE 1
Xor32(x, y) == [k \in 0..31 |-> Xor1(x[k], y[k])]
Shr1(x) == [k \in 0..31 |-> IF k = 31 THEN 0 ELSE x[k + 1]]
Ones32 == [k \in 0..31 |-> 1]
\* bit k of the byte b, as a 32-bit word
ByteWord(b) == [k \in 0..31 |-> IF k < 8 THEN (b \div (2 ^ k)) % 2 ELSE 0]
\* the hexadecimal digit (0..15) at bits 4n .. 4n+3
Nibble(x, n) == x[4 * n] + 2 * x[4 * n + 1] + 4 * x[4 * n + 2] + 8 * x[4 * n + 3]

\* crc32.IEEE, the reversed polynomial 0xedb88320, most significant digit
\* first.
IEEEDigits == <<14, 13, 11, 8, 8, 3, 2, 0>>
IEEE == [k \in 0..31 |-> (IEEEDigits[8 - (k \div 4)] \div (2 ^ (k % 4))) % 2]

RECURSIVE CrcShift(_, _)
CrcShift(crc, n) ==
    IF n = 0 THEN crc
    ELSE CrcShift(IF crc[0] = 1 THEN Xor32(Shr1(crc), IEEE) ELSE Shr1(crc), n - 1)

\* The CRC register after the bytes of data, from the register crc.
RECURSIVE CrcUpdate(_, _)
CrcUpdate(crc, data) ==
    IF data = <<>> THEN crc
    ELSE CrcUpdate(CrcShift(Xor32(crc, ByteWord(Head(data))), 8), Tail(data))

\* hash32.Sum32() of crc32.NewIEEE() after data was written to it.
Sum32(data) == Xor32(CrcUpdate(Ones32, data), Ones32)

\* ---------------------------------------------------------------- digests

\* hash.Size() of md5.New(), sha1.New() and sha256.New(), in bytes.
DigestSize(t) ==
    CASE t = TypeMD5 -> 16
      [] t = TypeSHA1 -> 20
      [] t = TypeSHA256 -> 32

\* hash.BlockSize(): the length of hasher.buf, hence the most bytes one
\* reader.Read returns.
BlockSize(t) ==
    CASE t = TypeCRC32 -> 1
      [] t = TypeMD5 -> 64
      [] t = TypeSHA1 -> 64
      [] t = TypeSHA256 -> 64

TypeSeed(t) ==
    CASE t = TypeMD5 -> 5
      [] t = TypeSHA1 -> 1
      [] t = TypeSHA256 -> 2

RECURSIVE Mix(_, _)
Mix(h, data) ==
    IF data = <<>> THEN h
    ELSE Mix((h * 33 + Head(data) + 1) % 65521, Tail(data))

\* hash.Sum(nil) after data was written: DigestSize(t) bytes.  The digest
\* functions are the standard library's; what is kept of them is that the
\* result has the algorithm's size and depends on the algorithm and on every
\* byte written.
Sum(t, data) ==
    [k \in 1..DigestSize(t) |-> Mix(TypeSeed(t) + 31 * k, data) % 256]

\* fmt.Sprintf("%x", v) for a uint32 v: the hexadecimal digits from the
\* most significant non-zero one, "0" for zero; no padding.
SprintfX32(x) ==
    LET used == {n \in 0..7 : Nibble(x, n) # 0}
        top == IF used = {} THEN 0 ELSE CHOOSE n \in used : \A m \in used : m <= n
    IN [k \in 1..(top + 1) |-> HexDigits[Nibble(x, top + 1 - k) + 1]]

\* fmt.Sprintf("%x", b) for a byte slice b: two digits for every byte.
SprintfXBytes(b) ==
    [k \in 1..(2 * Len(b)) |->
        LET byte == b[(k + 1) \div 2]
        IN HexDigits[(IF k % 2 = 1 THEN byte \div 16 ELSE byte % 16) + 1]]

\* The string calculateChecksum stores in Checksum once data was written
\* to the hasher.
ChecksumString(t, data) ==
    IF t = TypeCRC32 THEN SprintfX32(Sum32(data)) ELSE SprintfXBytes(Sum(t, data))

\* ------------------------------------------------------------ file system

\* The bytes files are made of.
Bytes == {97}

RECURSIVE SeqsUpTo(_, _)
SeqsUpTo(set, n) ==
    IF n = 0 THEN {<<>>}
    ELSE LET shorter == SeqsUpTo(set, n - 1)
         IN shorter \cup {Append(s, x) : s \in {q \in shorter : Len(q) = n - 1}, x \in set}

\* The paths of the modelled file system: one the manifest patterns accept
\* as a filename, one they do not.  A path no input names is missing.
Paths == {<<"a">>, <<"x", "-", "y">>}

\* What a path is: nothing (os.Open fails), something whose Stat fails, a
\* directory, or a regular file with its content.
FileStates ==
    [kind : {"missing", "nostat", "dir"}, data : {<<>>}]
        \cup [kind : {"file"}, data : SeqsUpTo(Bytes, MaxFileLen)]

\* What the path p is in the file system f; a path f does not hold is
\* missing.
FileAt(f, p) == IF p \in DOMAIN f THEN f[p] ELSE [kind |-> "missing", data |-> <<>>]

\* ----------------------------------------------------------------- entries

\* The zero value of ChecksumFile.
ZeroChecksumFile ==
    [ChecksumType |-> TypeUnknown, Status |-> StatusUnknown, Filename |-> <<>>,
     Filesize |-> 0, Checksum |-> <<>>, ChecksumWant |-> <<>>]

\* verifyChecksumFile(&checksumFile) in the file system f.
verifyChecksumFile(f, checksumFile) ==
    LET at == FileAt(f, checksumFile.Filename)
    IN CASE at.kind = "missing" -> [checksumFile EXCEPT !.Status = StatusNotFound]
         [] at.kind = "nostat" -> [checksumFile EXCEPT !.Status = StatusStatFailed]
         [] at.kind = "dir" -> [checksumFile EXCEPT !.Status = StatusNotFile]
         [] OTHER -> [checksumFile EXCEPT !.Status = StatusOK,
                                           !.Filesize = Len(at.data)]

\* createChecksumFile without its IsDir test: a directory passes for a file.
createChecksumFile_noIsDir(f, t, filename) ==
    LET checksumFile == [ChecksumType |-> t, Status |-> StatusUnknown,
                         Filename |-> filename, Filesize |-> 0,
                         Checksum |-> <<>>, ChecksumWant |-> <<>>]
        at == FileAt(f, filename)
    IN CASE at.kind = "missing" -> [checksumFile EXCEPT !.Status = StatusNotFound]
         [] at.kind = "nostat" -> [checksumFile EXCEPT !.Status = StatusStatFailed]
         [] OTHER -> [checksumFile EXCEPT !.Status = StatusOK,
                                           !.Filesize = Len(at.data)]

\* createChecksumFile returning, when os.Open fails, an entry that has not
\* been given the filename and the algorithm.
createChecksumFile_bareOnError(f, t, filename) ==
    LET checksumFile == [ChecksumType |-> t, Status |-> StatusUnknown,
                         Filename |-> filename, Filesize |-> 0,
                         Checksum |-> <<>>, ChecksumWant |-> <<>>]
        at == FileAt(f, filename)
    IN CASE at.kind = "missing" -> [ZeroChecksumFile EXCEPT !.Status = StatusNotFound]
         [] at.kind = "nostat" -> [checksumFile EXCEPT !.Status = StatusStatFailed]
         [] at.kind = "dir" -> [checksumFile EXCEPT !.Status = StatusNotFile]
         [] OTHER -> [checksumFile EXCEPT !.Status = StatusOK,
                                           !.Filesize = Len(at.data)]

\* createChecksumFile(t, filename) in the file system f.
createChecksumFile(f, t, filename) ==
    LET checksumFile == [ChecksumType |-> t, Status |-> StatusUnknown,
                         Filename |-> filename, Filesize |-> 0,
                         Checksum |-> <<>>, ChecksumWant |-> <<>>]
        at == FileAt(f, filename)
    IN CASE at.kind = "missing" -> [checksumFile EXCEPT !.Status = StatusNotFound]
         [] at.kind = "nostat" -> [checksumFile EXCEPT !.Status = StatusStatFailed]
         [] at.kind = "dir" -> [checksumFile EXCEPT !.Status = StatusNotFile]
         [] OTHER -> [checksumFile EXCEPT !.Status = StatusOK,
                                           !.Filesize = Len(at.data)]

\* ------------------------------------------------------------------ writer

\* time.Now().UTC().Format(time.RFC3339), at some moment.
Date == <<"2", "0", "2", "1", "-", "0", "3", "-", "0", "1", "T", "1", "2", ":", "0", "0", ":", "0", "0", "Z">>

\* The header line WriteToFile writes first.
HeaderLine ==
    <<";", " ", "G", "e", "n", "e", "r", "a", "t", "e", "d", " ", "b", "y", " ", "g", "o", "s", "f", "v", " ", "v", "e", "r", "s", "i", "o", "n", " ">>
        \o Version \o <<"(">> \o Commit \o <<")", " ", "a", "t", " ">> \o Date \o <<"\n">>

\* The text WriteToFile writes for an entry whose Status is
\* StatusCheckSumOK: the switch on ChecksumType.
EntryLine(checksumFile) ==
    CASE checksumFile.ChecksumType = TypeCRC32 ->
            checksumFile.Filename \o <<" ">> \o checksumFile.Checksum \o <<"\n">>
      [] checksumFile.ChecksumType = TypeMD5 ->
            <<"M", "D", "5", " ", "(">> \o checksumFile.Filename
                \o <<")", " ", "=", " ">> \o checksumFile.Checksum \o <<"\n">>
      [] checksumFile.ChecksumType = TypeSHA1 ->
            checksumFile.Checksum \o <<" ", " ">> \o checksumFile.Filename \o <<"\n">>
      [] checksumFile.ChecksumType = TypeSHA256 ->
            checksumFile.Checksum \o <<" ", " ">> \o checksumFile.Filename \o <<"\n">>
      [] OTHER -> <<>>

\* ------------------------------------------------------------------ parser

\* The offset just past the token bufio.ScanLines finds in text from the
\* offset pos (pos < Len(text)): past the next newline, or the end of text.
RECURSIVE TokenEnd(_, _)
TokenEnd(text, pos) ==
    IF pos = Len(text) THEN pos
    ELSE IF text[pos + 1] = "\n" THEN pos + 1
    ELSE TokenEnd(text, pos + 1)

\* dropCR: the token without one trailing carriage return.
DropCR(token) ==
    IF Len(token) > 0 /\ token[Len(token)] = "\r"
    THEN SubSeq(token, 1, Len(token) - 1)
    ELSE token

\* scanner.Text() after the Scan that starts at offset pos.
TokenAt(text, pos) ==
    LET end == TokenEnd(text, pos)
        last == IF text[end] = "\n" THEN end - 1 ELSE end
    IN DropCR(SubSeq(text, pos + 1, last))

\* reCrc32: ^([\w\.]+) ([\w]{8})$
MatchCrc32(line) ==
    /\ Len(line) >= 10
    /\ AllIn(SubSeq(line, 1, Len(line) - 9), WordDotChars)
    /\ line[Len(line) - 8] = " "
    /\ AllIn(SubSeq(line, Len(line) - 7, Len(line)), WordChars)

\* reMd5: ^MD5 \(([\w\.]+)\) = ([\w]{32})$
MatchMd5(line) ==
    /\ Len(line) >= 42
    /\ SubSeq(line, 1, 5) = <<"M", "D", "5", " ", "(">>
    /\ AllIn(SubSeq(line, 6, Len(line) - 36), WordDotChars)
    /\ SubSeq(line, Len(line) - 35, Len(line) - 32) = <<")", " ", "=", " ">>
    /\ AllIn(SubSeq(line, Len(line) - 31, Len(line)), WordChars)

\* reSha1 and reSha256: ^([\w]{n})  ([\w\.]+)$ with n = 40 and n = 64
MatchDigestFirst(line, n) ==
    /\ Len(line) >= n + 3
    /\ AllIn(SubSeq(line, 1, n), WordChars)
    /\ SubSeq(line, n + 1, n + 2) = <<" ", " ">>
    /\ AllIn(SubSeq(line, n + 3, Len(line)), WordDotChars)

MatchSha1(line) == MatchDigestFirst(line, 40)
MatchSha256(line) == MatchDigestFirst(line, 64)

\* Whether parseSfvFile makes an entry of the (non-empty) line.
Recognized(line) ==
    /\ line[1] # ";"
    /\ MatchCrc32(line) \/ MatchMd5(line) \/ MatchSha1(line) \/ MatchSha256(line)

\* The checksumFile parseSfvFile fills in from a recognized line, before
\* verifyChecksumFile: the if/else chain over the four patterns.
ParseLine(line) ==
    CASE MatchCrc32(line) ->
            [ZeroChecksumFile EXCEPT
                !.ChecksumType = TypeCRC32,
                !.Filename = SubSeq(line, 1, Len(line) - 9),
                !.ChecksumWant = SubSeq(line, Len(line) - 7, Len(line))]
      [] MatchMd5(line) ->
            [ZeroChecksumFile EXCEPT
                !.ChecksumType = TypeMD5,
                !.Filename = SubSeq(line, 6, Len(line) - 36),
                !.ChecksumWant = SubSeq(line, Len(line) - 31, Len(line))]
      [] MatchSha1(line) ->
            [ZeroChecksumFile EXCEPT
                !.ChecksumType = TypeSHA1,
                !.Filename = SubSeq(line, 43, Len(line)),
                !.ChecksumWant = SubSeq(line, 1, 40)]
      [] MatchSha256(line) ->
            [ZeroChecksumFile EXCEPT
                !.ChecksumType = TypeSHA256,
                !.Filename = SubSeq(line, 67, Len(line)),
                !.ChecksumWant = SubSeq(line, 1, 64)]

\* ------------------------------------------------------------------- state

VARIABLES
    fs,             \* the file system: Paths -> FileStates
    mode,           \* "create": create, then verify what was written;
                    \* "verify": verify a given manifest
    op,             \* the function running: "Create", "WriteToFile", "Verify"
    pc,             \* where it is
    t,              \* Create's algorithm
    files,          \* Create's file list
    checksumFiles,  \* the slice Create or Verify is building
    i,              \* the index of the running loop
    file,           \* calculateChecksum's handle: "none", "open", "nil"
    hasher,         \* the bytes written to the hasher
    created,        \* what Create returned: WriteToFile's argument
    manifest,       \* the text of the manifest file: what WriteToFile has
                    \* written, what parseSfvFile reads
    pos,            \* the scanner's offset in manifest
    faults,         \* the I/O faults so far
    readErr,        \* the entries of the running function for which
                    \* reader.Read returned an error other than io.EOF
    writeErr,       \* a WriteString of WriteToFile failed
    afterErr        \* the lines written after a failed WriteString

vars == <<fs, mode, op, pc, t, files, checksumFiles, i, file, hasher, created,
          manifest, pos, faults, readErr, writeErr, afterErr>>

\* A manifest line for the entry of algorithm ty, name and digest.
LineOf(ty, name, digest) ==
    EntryLine([ZeroChecksumFile EXCEPT !.ChecksumType = ty, !.Filename = name,
                                       !.Checksum = digest])

\* The lines a manifest given to Verify is made of: a comment, an empty
\* line, a line no pattern matches, and lines of the four patterns with
\* digests that some content has or none has.
ManifestLines ==
    { <<";", " ", "c", "\n">>,
      <<"\n">>,
      <<"a", "\n">>,
      LineOf(TypeCRC32, <<"a">>, ChecksumString(TypeCRC32, <<97>>)),
      LineOf(TypeCRC32, <<"a">>, <<"0", "0", "0", "0", "0", "0", "0", "0">>),
      LineOf(TypeMD5, <<"a">>, ChecksumString(TypeMD5, <<97>>)),
      LineOf(TypeSHA1, <<"a">>, ChecksumString(TypeSHA1, <<>>)),
      LineOf(TypeSHA256, <<"a">>, ChecksumString(TypeSHA256, <<97>>)) }

\* The files those lines name.
ManifestNames == {<<"a">>}

RECURSIVE Concat(_)
Concat(ss) == IF ss = <<>> THEN <<>> ELSE Head(ss) \o Concat(Tail(ss))

Manifests == {Concat(ls) : ls \in SeqsUpTo(ManifestLines, MaxLines)}

Init ==
    /\ fs \in [Paths -> FileStates]
    /\ mode \in {"create", "verify"}
    /\ \/ /\ mode = "create"
          /\ op = "Create"
          /\ pc = "probe"
          /\ t \in Types
          /\ files \in SeqsUpTo(Paths, MaxFiles)
          /\ checksumFiles = [k \in 1..Len(files) |-> ZeroChecksumFile]
          /\ manifest = <<>>
          /\ \A p \in Paths \ {files[k] : k \in 1..Len(files)} : fs[p].kind = "missing"
       \/ /\ mode = "verify"
          /\ op = "Verify"
          /\ pc = "open"
          /\ t = TypeUnknown
          /\ files = <<>>
          /\ checksumFiles = <<>>
          /\ manifest \in Manifests
          /\ \A p \in Paths \ ManifestNames : fs[p].kind = "missing"
    /\ i = 1
    /\ file = "none"
    /\ hasher = <<>>
    /\ created = <<>>
    /\ pos = 0
    /\ faults = 0
    /\ readErr = {}
    /\ writeErr = FALSE
    /\ afterErr = 0

\* The environment may inject one more fault.
MayFail == faults < MaxFaults

\* ------------------------------------------------------------------ Create

\* Create's first loop: checksumFiles[i] = createChecksumFile(t, file).
CreateProbe ==
    /\ op = "Create" /\ pc = "probe"
    /\ i <= Len(files)
    /\ checksumFiles' = [checksumFiles EXCEPT ![i] = createChecksumFile(fs, t, files[i])]
    /\ i' = i + 1
    /\ UNCHANGED <<fs, mode, op, pc, t, files, file, hasher, created, manifest,
                   pos, faults, readErr, writeErr, afterErr>>

\* The first loop ends; the second one starts.
CreateProbed ==
    /\ op = "Create" /\ pc = "probe"
    /\ i > Len(files)
    /\ pc' = "hash"
    /\ i' = 1
    /\ UNCHANGED <<fs, mode, op, t, files, checksumFiles, file, hasher,
                   created, manifest, pos, faults, readErr, writeErr,
                   afterErr>>

\* --------------------------------------------------------- calculateChecksum

\* Where calculateChecksum returns to: Create's loop goes on with the next
\* entry, Verify compares the digests first.
Returned(o) == IF o = "Verify" THEN "compare" ELSE "hash"
NextIndex(o, k) == IF o = "Verify" THEN k ELSE k + 1

\* Whether calculateChecksum goes on with the entry: its first test.
ToHash(checksumFile) == checksumFile.Status = StatusOK

\* calculateChecksum is called for entry i and returns at once.
calculateChecksumSkip ==
    /\ op \in {"Create", "Verify"} /\ pc = "hash"
    /\ i <= Len(checksumFiles)
    /\ ~ToHash(checksumFiles[i])
    /\ pc' = Returned(op)
    /\ i' = NextIndex(op, i)
    /\ UNCHANGED <<fs, mode, op, t, files, checksumFiles, file, hasher,
                   created, manifest, pos, faults, readErr, writeErr,
                   afterErr>>

\* calculateChecksum is called for entry i and opens the file, its error
\* ignored (a failed os.Open leaves a nil *os.File), and makes the hasher.
calculateChecksumOpen ==
    /\ op \in {"Create", "Verify"} /\ pc = "hash"
    /\ i <= Len(checksumFiles)
    /\ ToHash(checksumFiles[i])
    /\ \/ file' = "open" /\ faults' = faults
       \/ MayFail /\ file' = "nil" /\ faults' = faults + 1
    /\ hasher' = <<>>
    /\ pc' = "read"
    /\ UNCHANGED <<fs, mode, op, t, files, checksumFiles, i, created, manifest,
                   pos, readErr, writeErr, afterErr>>

\* The bytes of the file of entry i not read yet.
Unread == LET data == FileAt(fs, checksumFiles[i].Filename).data
          IN SubSeq(data, Len(hasher) + 1, Len(data))

Min(a, b) == IF a <= b THEN a ELSE b

\* reader.Read returns count bytes, which are written to the hasher.
calculateChecksumRead ==
    /\ pc = "read"
    /\ file = "open"
    /\ Unread # <<>>
    /\ hasher' = hasher \o SubSeq(Unread, 1,
                    Min(BlockSize(checksumFiles[i].ChecksumType), Len(Unread)))
    /\ UNCHANGED <<fs, mode, op, pc, t, files, checksumFiles, i, file, created,
                   manifest, pos, faults, readErr, writeErr, afterErr>>

\* reader.Read returns io.EOF: the loop ends.
calculateChecksumEOF ==
    /\ pc = "read"
    /\ file = "open"
    /\ Unread = <<>>
    /\ pc' = "sum"
    /\ UNCHANGED <<fs, mode, op, t, files, checksumFiles, i, file, hasher,
                   created, manifest, pos, faults, readErr, writeErr,
                   afterErr>>

\* The entry after a read error: the branch err != io.EOF.
ReadFailed(checksumFile) == [checksumFile EXCEPT !.Status = StatusFailedCheckSum]

\* reader.Read returns another error (always, of a nil file): the status is
\* set and the loop ends.
calculateChecksumReadError ==
    /\ pc = "read"
    /\ \/ file = "nil" /\ faults' = faults
       \/ file = "open" /\ MayFail /\ faults' = faults + 1
    /\ checksumFiles' = [checksumFiles EXCEPT ![i] = ReadFailed(@)]
    /\ readErr' = readErr \cup {i}
    /\ pc' = "sum"
    /\ UNCHANGED <<fs, mode, op, t, files, i, file, hasher, created, manifest,
                   pos, writeErr, afterErr>>

\* The last switch storing the digest but keeping the status of an entry
\* whose read failed.
Summed_keepFailed(checksumFile, data) ==
    IF checksumFile.ChecksumType \in Types
    THEN [checksumFile EXCEPT
            !.Status = IF @ = StatusFailedCheckSum THEN @ ELSE StatusCheckSumOK,
            !.Checksum = ChecksumString(checksumFile.ChecksumType, data)]
    ELSE checksumFile

\* The entry after the last switch of calculateChecksum, data being what
\* was written to the hasher.
Summed(checksumFile, data) ==
    IF checksumFile.ChecksumType \in Types
    THEN [checksumFile EXCEPT
            !.Status = StatusCheckSumOK,
            !.Checksum = ChecksumString(checksumFile.ChecksumType, data)]
    ELSE checksumFile

\* The last switch of calculateChecksum, and its return.
calculateChecksumSum ==
    /\ pc = "sum"
    /\ checksumFiles' = [checksumFiles EXCEPT ![i] = Summed(@, hasher)]
    /\ file' = "none"
    /\ hasher' = <<>>
    /\ pc' = Returned(op)
    /\ i' = NextIndex(op, i)
    /\ UNCHANGED <<fs, mode, op, t, files, created, manifest, pos, faults,
                   readErr, writeErr, afterErr>>

\* Create's second loop ends: Create returns checksumFiles, which the
\* create command hands to WriteToFile.
CreateReturn ==
    /\ op = "Create" /\ pc = "hash"
    /\ i > Len(checksumFiles)
    /\ created' = checksumFiles
    /\ op' = "WriteToFile"
    /\ pc' = "create"
    /\ i' = 1
    /\ UNCHANGED <<fs, mode, t, files, checksumFiles, file, hasher, manifest,
                   pos, faults, readErr, writeErr, afterErr>>

\* ------------------------------------------------------------- WriteToFile

\* os.Create succeeds (or filename is empty and the output is os.Stdout).
WriteToFileCreate ==
    /\ op = "WriteToFile" /\ pc = "create"
    /\ pc' = "header"
    /\ UNCHANGED <<fs, mode, op, t, files, checksumFiles, i, file, hasher,
                   created, manifest, pos, faults, readErr, writeErr,
                   afterErr>>

\* os.Create fails: log.Fatal.
WriteToFileCreateError ==
    /\ op = "WriteToFile" /\ pc = "create"
    /\ MayFail
    /\ faults' = faults + 1
    /\ pc' = "fatal"
    /\ UNCHANGED <<fs, mode, op, t, files, checksumFiles, i, file, hasher,
                   created, manifest, pos, readErr, writeErr, afterErr>>

\* Where WriteToFile goes on after the WriteString of the header, ok
\* telling whether it succeeded: its result is dropped.
AfterHeader(ok) == "lines"

\* Where WriteToFile goes on after the WriteString of an entry's line: the
\* test of err after the switch.
AfterLine(ok) == IF ok THEN "lines" ELSE "fatal"

\* file.WriteString of the header line.
WriteToFileHeader ==
    /\ op = "WriteToFile" /\ pc = "header"
    /\ \E ok \in BOOLEAN :
          /\ ok \/ MayFail
          /\ manifest' = IF ok THEN manifest \o HeaderLine ELSE manifest
          /\ writeErr' = (writeErr \/ ~ok)
          /\ faults' = IF ok THEN faults ELSE faults + 1
          /\ pc' = AfterHeader(ok)
    /\ i' = 1
    /\ UNCHANGED <<fs, mode, op, t, files, checksumFiles, file, hasher,
                   created, pos, readErr, afterErr>>

\* Whether WriteToFile writes a line for the entry.
Written(checksumFile) == checksumFile.Status = StatusCheckSumOK

\* The loop of WriteToFile, for an entry it writes a line for.
WriteToFileLine ==
    /\ op = "WriteToFile" /\ pc = "lines"
    /\ i <= Len(created)
    /\ Written(created[i])
    /\ \E ok \in BOOLEAN :
          /\ ok \/ MayFail
          /\ manifest' = IF ok THEN manifest \o EntryLine(created[i]) ELSE manifest
          /\ afterErr' = IF ok /\ writeErr THEN afterErr + 1 ELSE afterErr
          /\ writeErr' = (writeErr \/ ~ok)
          /\ faults' = IF ok THEN faults ELSE faults + 1
          /\ pc' = AfterLine(ok)
          /\ i' = IF ok THEN i + 1 ELSE i
    /\ UNCHANGED <<fs, mode, op, t, files, checksumFiles, file, hasher,
                   created, pos, readErr>>

\* The loop of WriteToFile, for an entry it writes nothing for.
WriteToFileOmit ==
    /\ op = "WriteToFile" /\ pc = "lines"
    /\ i <= Len(created)
    /\ ~Written(created[i])
    /\ i' = i + 1
    /\ UNCHANGED <<fs, mode, op, pc, t, files, checksumFiles, file, hasher,
                   created, manifest, pos, faults, readErr, writeErr,
                   afterErr>>

\* The loop ends and WriteToFile returns.
WriteToFileReturn ==
    /\ op = "WriteToFile" /\ pc = "lines"
    /\ i > Len(created)
    /\ pc' = "written"
    /\ UNCHANGED <<fs, mode, op, t, files, checksumFiles, i, file, hasher,
                   created, manifest, pos, faults, readErr, writeErr,
                   afterErr>>

\* ------------------------------------------------------------------ Verify

\* The verify command is run on what the create command wrote.
VerifyWritten ==
    /\ op = "WriteToFile" /\ pc = "written"
    /\ op' = "Verify"
    /\ pc' = "open"
    /\ checksumFiles' = <<>>
    /\ readErr' = {}
    /\ i' = 1
    /\ UNCHANGED <<fs, mode, t, files, file, hasher, created, manifest, pos, faults,
                   writeErr, afterErr>>

\* parseSfvFile: os.Open succeeds (or filename is empty and the input is
\* os.Stdin); the slice and the scanner are made.
parseSfvFileOpen ==
    /\ op = "Verify" /\ pc = "open"
    /\ checksumFiles' = <<>>
    /\ pos' = 0
    /\ pc' = "scan"
    /\ UNCHANGED <<fs, mode, op, t, files, i, file, hasher, created, manifest,
                   faults, readErr, writeErr, afterErr>>

\* parseSfvFile: os.Open fails: log.Fatal.
parseSfvFileOpenError ==
    /\ op = "Verify" /\ pc = "open"
    /\ MayFail
    /\ faults' = faults + 1
    /\ pc' = "fatal"
    /\ UNCHANGED <<fs, mode, op, t, files, checksumFiles, i, file, hasher,
                   created, manifest, pos, readErr, writeErr, afterErr>>

\* What one pass of the scanner loop does with the line: "panic" (line[0:1]
\* of an empty string is out of range), "continue" (a comment, or a line no
\* pattern matches) or "append".
LineCase(line) ==
    IF Len(line) < 1 THEN "panic"
    ELSE IF line[1] = ";" THEN "continue"
    ELSE IF Recognized(line) THEN "append"
    ELSE "continue"

\* One pass of the scanner loop of parseSfvFile.
parseSfvFileLine ==
    /\ op = "Verify" /\ pc = "scan"
    /\ pos < Len(manifest)
    /\ LET line == TokenAt(manifest, pos)
           what == LineCase(line)
       IN /\ pos' = TokenEnd(manifest, pos)
          /\ pc' = IF what = "panic" THEN "panic" ELSE "scan"
          /\ checksumFiles' =
                IF what = "append"
                THEN Append(checksumFiles, verifyChecksumFile(fs, ParseLine(line)))
                ELSE checksumFiles
    /\ UNCHANGED <<fs, mode, op, t, files, i, file, hasher, created, manifest,
                   faults, readErr, writeErr, afterErr>>

\* scanner.Scan() returns false: parseSfvFile returns and Verify's loop
\* starts.
parseSfvFileReturn ==
    /\ op = "Verify" /\ pc = "scan"
    /\ pos = Len(manifest)
    /\ pc' = "hash"
    /\ i' = 1
    /\ UNCHANGED <<fs, mode, op, t, files, checksumFiles, file, hasher,
                   created, manifest, pos, faults, readErr, writeErr,
                   afterErr>>

\* The entry after Verify's comparison of the digests.
Compared(checksumFile) ==
    IF /\ checksumFile.Status = StatusCheckSumOK
       /\ checksumFile.Checksum # checksumFile.ChecksumWant
    THEN [checksumFile EXCEPT !.Status = StatusCheckSumNoMatch]
    ELSE checksumFile

\* Verify's loop, after calculateChecksum returned for entry i.
VerifyCompare ==
    /\ op = "Verify" /\ pc = "compare"
    /\ checksumFiles' = [checksumFiles EXCEPT ![i] = Compared(@)]
    /\ i' = i + 1
    /\ pc' = "hash"
    /\ UNCHANGED <<fs, mode, op, t, files, file, hasher, created, manifest,
                   pos, faults, readErr, writeErr, afterErr>>

\* Verify's loop ends: Verify returns checksumFiles.
VerifyReturn ==
    /\ op = "Verify" /\ pc = "hash"
    /\ i > Len(checksumFiles)
    /\ pc' = "done"
    /\ UNCHANGED <<fs, mode, op, t, files, checksumFiles, i, file, hasher,
                   created, manifest, pos, faults, readErr, writeErr,
                   afterErr>>

Next ==
    \/ CreateProbe
    \/ CreateProbed
    \/ calculateChecksumSkip
    \/ calculateChecksumOpen
    \/ calculateChecksumRead
    \/ calculateChecksumEOF
    \/ calculateChecksumReadError
    \/ calculateChecksumSum
    \/ CreateReturn
    \/ WriteToFileCreate
    \/ WriteToFileCreateError
    \/ WriteToFileHeader
    \/ WriteToFileLine
    \/ WriteToFileOmit
    \/ WriteToFileReturn
    \/ VerifyWritten
    \/ parseSfvFileOpen
    \/ parseSfvFileOpenError
    \/ parseSfvFileLine
    \/ parseSfvFileReturn
    \/ VerifyCompare
    \/ VerifyReturn

Spec == Init /\ [][Next]_vars

\* ------------------------------------------------------------- the claims

\* Every line the scanner yields from text, from the offset from on.
RECURSIVE ScanFrom(_, _)
ScanFrom(text, from) ==
    IF from = Len(text) THEN <<>>
    ELSE <<TokenAt(text, from)>> \o ScanFrom(text, TokenEnd(text, from))

\* A line of one of the four patterns that is no comment.
IsEntryLine(line) == Len(line) > 0 /\ Recognized(line)

\* The lines of text that stand for an entry, in order.
EntryLines(text) == SelectSeq(ScanFrom(text, 0), IsEntryLine)

\* The statuses a failed probe gives.
FailedProbe == {StatusNotFound, StatusNotFile, StatusStatFailed}

IsCheckSumOK(checksumFile) == checksumFile.Status = StatusCheckSumOK

\* The digest of the whole content of the entry's file.
TrueDigest(checksumFile) ==
    ChecksumString(checksumFile.ChecksumType, FileAt(fs, checksumFile.Filename).data)

\* Entry k of Create's slice has been probed.
Probed(k) == (op = "Create" /\ pc = "probe") => k < i

\* calculateChecksum has returned for entry k of the running function.
Hashed(k) == k < i \/ (k = i /\ pc = "compare")

\* C1: round trip.  When Create ran on existing regular files, WriteToFile
\* wrote its result and Verify then read what was written, with no I/O fault
\* anywhere, Verify returns one entry for each entry Create hashed, in
\* order, with the same algorithm, filename and digest and with the status
\* StatusCheckSumOK.
C1_RoundTrip ==
    ( /\ mode = "create" /\ op = "Verify" /\ pc = "done"
      /\ faults = 0
      /\ \A k \in 1..Len(files) : FileAt(fs, files[k]).kind = "file" )
    => LET hashed == SelectSeq(created, IsCheckSumOK)
       IN /\ Len(checksumFiles) = Len(hashed)
          /\ \A k \in 1..Len(hashed) :
                /\ checksumFiles[k].ChecksumType = hashed[k].ChecksumType
                /\ checksumFiles[k].Filename = hashed[k].Filename
                /\ checksumFiles[k].Checksum = hashed[k].Checksum
                /\ checksumFiles[k].Status = StatusCheckSumOK

\* C2: an entry for which a read returned an error other than end of
\* stream (a file that could not be opened for hashing included) has, once
\* calculateChecksum has returned, the status StatusFailedCheckSum and an
\* empty digest.
C2_ReadErrorFails ==
    op \in {"Create", "Verify"} =>
        \A k \in readErr :
            Hashed(k) => /\ checksumFiles[k].Status = StatusFailedCheckSum
                         /\ checksumFiles[k].Checksum = <<>>

\* C3: in what Verify returns, an entry has the status StatusCheckSumNoMatch
\* exactly when its file was probed as a regular file and its digest differs
\* from the expected one; it then holds the digest of the file's content,
\* both digests are non-empty, and the expected digest, the filename and the
\* algorithm are those of its manifest line.  An entry of a regular file
\* whose digests are equal has the status StatusCheckSumOK.
C3_MismatchDetection ==
    (op = "Verify" /\ pc = "done") =>
        \A k \in 1..Len(checksumFiles) :
            LET e == checksumFiles[k]
                parsed == ParseLine(EntryLines(manifest)[k])
                regular == FileAt(fs, e.Filename).kind = "file"
            IN /\ (e.Status = StatusCheckSumNoMatch)
                    <=> (regular /\ e.Checksum # e.ChecksumWant)
               /\ e.Status = StatusCheckSumNoMatch =>
                    /\ e.Checksum # <<>> /\ e.ChecksumWant # <<>>
                    /\ e.Checksum = TrueDigest(e)
                    /\ e.ChecksumWant = parsed.ChecksumWant
                    /\ e.Filename = parsed.Filename
                    /\ e.ChecksumType = parsed.ChecksumType
               /\ (regular /\ e.Checksum = e.ChecksumWant)
                    => e.Status = StatusCheckSumOK

\* C4: parser selectivity.  No line of a manifest, whatever its length,
\* stops the parser, and once the parser has returned the slice holds one
\* entry for every line of one of the four patterns, in the manifest's order.
C4_ParserSelectivity ==
    op = "Verify" =>
        /\ pc # "panic"
        /\ pc \in {"hash", "read", "sum", "compare", "done"} =>
              LET lines == EntryLines(manifest)
              IN /\ Len(checksumFiles) = Len(lines)
                 /\ \A k \in 1..Len(lines) :
                       /\ checksumFiles[k].Filename = ParseLine(lines[k]).Filename
                       /\ checksumFiles[k].ChecksumType = ParseLine(lines[k]).ChecksumType
                       /\ checksumFiles[k].ChecksumWant = ParseLine(lines[k]).ChecksumWant

\* What the probe has to make of the path of the entry e: the status and
\* size of a path that is no regular file, and the size of one that is.
ProbeAgrees(e) ==
    LET at == FileAt(fs, e.Filename)
    IN CASE at.kind = "missing" -> e.Status = StatusNotFound /\ e.Filesize = 0
         [] at.kind = "nostat" -> e.Status = StatusStatFailed /\ e.Filesize = 0
         [] at.kind = "dir" -> e.Status = StatusNotFile /\ e.Filesize = 0
         [] OTHER -> /\ e.Status \notin FailedProbe \cup {StatusUnknown}
                     /\ e.Filesize = Len(at.data)

\* What WriteToFile has written when its loop is at entry n: the header or
\* (its write having failed) nothing, then the lines of the entries before
\* n whose status is StatusCheckSumOK, and nothing else.
RECURSIVE LinesOf(_)
LinesOf(entries) ==
    IF entries = <<>> THEN <<>>
    ELSE EntryLine(Head(entries)) \o LinesOf(Tail(entries))

OutputUpTo(n) == LinesOf(SelectSeq(SubSeq(created, 1, n - 1), IsCheckSumOK))

\* C5: the probe maps a failed open to StatusNotFound, a failed stat to
\* StatusStatFailed, a directory to StatusNotFile and a regular file to
\* StatusOK with its length.  An entry whose probe failed has the size 0,
\* stays exactly what the probe made it through the hashing stage (empty
\* digest), and has no line in what WriteToFile writes.
C5_ProbeAndSkip ==
    /\ op \in {"Create", "WriteToFile"} =>
          \A k \in 1..Len(checksumFiles) :
              Probed(k) =>
                  LET e == checksumFiles[k]
                      probe == [ZeroChecksumFile EXCEPT !.ChecksumType = t,
                                                        !.Filename = files[k]]
                  IN /\ e.Filename = files[k]
                     /\ ProbeAgrees(e)
                     /\ (op = "Create" /\ pc = "probe") => e.Status \in FailedProbe \cup {StatusOK}
                     /\ e.Status \in FailedProbe => e = [probe EXCEPT !.Status = e.Status]
    /\ (op = "Verify" /\ pc \in {"scan", "panic", "done"}) =>
          LET lines == EntryLines(manifest)
          IN \A k \in 1..Len(checksumFiles) :
                LET e == checksumFiles[k]
                    parsed == ParseLine(lines[k])
                IN /\ e.Filename = parsed.Filename
                   /\ ProbeAgrees(e)
                   /\ pc = "scan" => e.Status \in FailedProbe \cup {StatusOK}
                   /\ e.Status \in FailedProbe => e = [parsed EXCEPT !.Status = e.Status]
    /\ (op = "WriteToFile" /\ pc \in {"lines", "written", "fatal"}) =>
          /\ \A k \in 1..Len(created) :
                created[k].Status \in FailedProbe => created[k] = checksumFiles[k]
          /\ manifest \in {OutputUpTo(i), HeaderLine \o OutputUpTo(i)}

\* C5's case: WriteToFile has returned, having been given an entry of a
\* missing file and an entry that was hashed, and has written something.
C5_Witness ==
    /\ op = "WriteToFile" /\ pc = "written"
    /\ \E k \in 1..Len(created) : created[k].Status = StatusNotFound
    /\ \E k \in 1..Len(created) : created[k].Status = StatusCheckSumOK
    /\ Len(manifest) > Len(HeaderLine)

\* The digits of a digest: exactly this many.
DigestDigits(ty) ==
    CASE ty = TypeCRC32 -> 8
      [] ty = TypeMD5 -> 32
      [] ty = TypeSHA1 -> 40
      [] ty = TypeSHA256 -> 64

LowerHex == {HexDigits[n] : n \in 1..16}

\* C6: the digest of a hashed entry is lowercase hexadecimal and has
\* exactly 8 characters for CRC32, 32 for MD5, 40 for SHA1 and 64 for
\* SHA256.
C6_DigestLength ==
    \A k \in 1..Len(checksumFiles) :
        checksumFiles[k].Status \in {StatusCheckSumOK, StatusCheckSumNoMatch} =>
            /\ Len(checksumFiles[k].Checksum) = DigestDigits(checksumFiles[k].ChecksumType)
            /\ AllIn(checksumFiles[k].Checksum, LowerHex)

\* C7: after a failed write of WriteToFile, of the header or of an entry's
\* line, no further line is written and WriteToFile does not return as if
\* it had succeeded.
C7_WriteFailureFatal ==
    /\ afterErr = 0
    /\ ~(writeErr /\ op = "WriteToFile" /\ pc = "written")

\* C8: Create returns one entry for every path it was given, in order,
\* with that path and the algorithm it was given, whatever became of each
\* entry, and every entry of a regular file has been hashed; Verify returns
\* one entry for every manifest line of one of the four patterns, those of
\* files whose probe failed included, and every entry of a regular file has
\* been hashed.
C8_PerFileNonFatal ==
    /\ op = "WriteToFile" =>
          /\ Len(created) = Len(files)
          /\ \A k \in 1..Len(files) :
                /\ created[k].Filename = files[k]
                /\ created[k].ChecksumType = t
                /\ FileAt(fs, files[k]).kind = "file"
                      => created[k].Status \in {StatusCheckSumOK, StatusFailedCheckSum}
                /\ FileAt(fs, files[k]).kind # "file"
                      => created[k].Status \in FailedProbe
    /\ (op = "Verify" /\ pc = "done") =>
          LET lines == EntryLines(manifest)
          IN /\ Len(checksumFiles) = Len(lines)
             /\ \A k \in 1..Len(lines) :
                   /\ checksumFiles[k].Filename = ParseLine(lines[k]).Filename
                   /\ checksumFiles[k].ChecksumType = ParseLine(lines[k]).ChecksumType
                   /\ FileAt(fs, checksumFiles[k].Filename).kind = "file"
                         => checksumFiles[k].Status \in
                              {StatusCheckSumOK, StatusCheckSumNoMatch, StatusFailedCheckSum}
                   /\ FileAt(fs, checksumFiles[k].Filename).kind # "file"
                         => checksumFiles[k].Status \in FailedProbe

\* C8's case: Create has returned two entries, the first of a path whose
\* probe failed, the second hashed.
C8_Witness ==
    /\ op = "WriteToFile"
    /\ Len(created) = 2
    /\ created[1].Status \in FailedProbe
    /\ created[2].Status = StatusCheckSumOK

\* The status changes the lifecycle allows.
AllowedChanges ==
    ({StatusUnknown} \X ({StatusOK} \cup FailedProbe))
        \cup ({StatusOK} \X {StatusCheckSumOK, StatusFailedCheckSum})
        \cup {<<StatusCheckSumOK, StatusCheckSumNoMatch>>}

\* C9: no step changes the status of an entry other than along Unknown ->
\* {OK, NotFound, NotFile, StatFailed}, OK -> {CheckSumOK, FailedCheckSum},
\* CheckSumOK -> CheckSumNoMatch; so the status of an entry in NotFound,
\* NotFile, StatFailed or FailedCheckSum never changes.
C9_StatusNeverRegresses ==
    [][\A k \in 1..Len(checksumFiles) :
          (k <= Len(checksumFiles') /\ checksumFiles'[k].Status # checksumFiles[k].Status)
              => <<checksumFiles[k].Status, checksumFiles'[k].Status>> \in AllowedChanges]_vars

\* C10: an entry of the four algorithms has a non-empty digest exactly
\* when its status is StatusCheckSumOK or StatusCheckSumNoMatch, at every
\* moment and so in what Create and Verify return.
C10_DigestIffHashed ==
    \A entries \in {checksumFiles, created} :
        \A k \in 1..Len(entries) :
            (entries[k].Checksum # <<>>)
                <=> (entries[k].Status \in {StatusCheckSumOK, StatusCheckSumNoMatch})

\* C10's case: Verify has returned an entry whose digests differ and one
\* whose digests agree.
C10_Witness ==
    /\ op = "Verify" /\ pc = "done"
    /\ \E k \in 1..Len(checksumFiles) :
          /\ checksumFiles[k].Status = StatusCheckSumNoMatch
          /\ checksumFiles[k].Checksum # <<>>
    /\ \E k \in 1..Len(checksumFiles) : checksumFiles[k].Status = StatusCheckSumOK

====
